---------------------------- MODULE Spec2Model ----------------------------
(***************************************************************************)
(* Commodity analyzer (src/script.js): the click handler and runAnalysis,  *)
(* fetchCommodityData with its localStorage cache, the Monte Carlo         *)
(* simulation with its Box-Muller sampler, and displayResults with the     *)
(* histogram binning.                                                      *)
(*                                                                         *)
(* Numbers.  A JavaScript number is an IEEE-754 double, modelled bit for   *)
(* bit: a finite number is the record of its sign, its significand (a      *)
(* natural number below 2^53, held in limbs) and its binary exponent, and  *)
(* NaN, the infinities, -0, undefined and null are values of their own.    *)
(* A sum, difference, product, quotient or square root is computed exactly *)
(* and rounded once to the nearest double, ties to the even significand,   *)
(* with overflow to Infinity and gradual underflow, as the processor does. *)
(* parseFloat and Number::toString convert between decimal text and the    *)
(* nearest double.  Math.log, Math.cos and Math.pow, whose last bit the    *)
(* language leaves to the engine, are given the correctly rounded value at *)
(* the arguments that occur.  Where the language leaves the outcome open   *)
(* (the order sort gives with a comparator that returns NaN), the operator *)
(* gives the set of the possible outcomes.                                 *)
(* Counts, lengths and indices are plain naturals.  Uniform draws of       *)
(* Math.random are quantised to k/UnifDen, k in 0..UnifDen-1.              *)
(***************************************************************************)
EXTENDS Integers, Sequences, FiniteSets, TLC

(***************************************************************************)
(* Program constants and bounds                                            *)
(***************************************************************************)
\* src/script.js:5 sets 30 and src/script.js:6 sets 15000; the model runs
\* the same loops with a small horizon and a small number of paths.
FORECAST_DAYS == 2
NUM_SIMULATIONS == 2
\* default value of the numBins parameter of drawHistogram
DefaultNumBins == 20
\* fetchCommodityData: minimum history length and the slice(-100) window
MinHistory == 30
HistoryWindow == 100
\* 24 * 60 * 60 * 1000 ms
CacheTTL == 86400000

\* quantisation of Math.random(): the draws are 0 and 1/2
UnifDen == 2
\* the clock advances in steps of 24 hours, in ms
TickMillis == 86400000
\* number of clock steps
MaxTicks == 1
\* analyses the model can hold in flight at once
MaxInflight == 2
\* longest list of terminal prices handed to displayResults on its own
MaxPaths == 21
\* largest explicit bin count handed to drawHistogram on its own
MaxBins == 4
\* longest price history handed to runMonteCarloSimulation on its own
MaxHist == 3


(***************************************************************************)
(* Natural numbers of any size: the limbs in base Base, the lowest first,  *)
(* the highest not zero; <<>> is 0                                         *)
(***************************************************************************)
Max(a, b) == IF a >= b THEN a ELSE b
Min(a, b) == IF a <= b THEN a ELSE b

LimbBits == 15
Base == 32768

\* the position of the highest limb of a that is not zero
TopLimb(a) ==
    IF \A i \in 1..Len(a) : a[i] = 0 THEN 0
    ELSE CHOOSE i \in 1..Len(a) :
            a[i] # 0 /\ \A j \in (i + 1)..Len(a) : a[j] = 0

\* a without its zero limbs at the top
Trim(a) == CHOOSE res \in {SubSeq(va, 1, TopLimb(va)) : va \in {a}} : TRUE

RECURSIVE LimbsOf(_)
LimbsOf(n) == IF n = 0 THEN <<>> ELSE <<n % Base>> \o LimbsOf(n \div Base)
\* the limbs of n >= 0
BigFromInt(n) == CHOOSE res \in {LimbsOf(va) : va \in {n}} : TRUE

RECURSIVE IntOfLimbs(_, _)
IntOfLimbs(a, i) == IF i > Len(a) THEN 0 ELSE a[i] + Base * IntOfLimbs(a, i + 1)
\* a as an integer, for a below 2^31
BigToInt(a) == CHOOSE res \in {IntOfLimbs(va, 1) : va \in {a}} : TRUE

Limb(a, i) == IF 1 <= i /\ i <= Len(a) THEN a[i] ELSE 0

\* the carry into limb i of a + b: a limb below it overflows, and the limbs
\* between pass the carry on
CarryInto(a, b, i) ==
    \E j \in 1..(i - 1) :
        /\ Limb(a, j) + Limb(b, j) >= Base
        /\ \A l \in (j + 1)..(i - 1) : Limb(a, l) + Limb(b, l) = Base - 1

AddLimbs(a, b) ==
    Trim([i \in 1..(Max(Len(a), Len(b)) + 1) |->
            (Limb(a, i) + Limb(b, i) + (IF CarryInto(a, b, i) THEN 1 ELSE 0))
                % Base])
\* a + b
BigAdd(a, b) == CHOOSE res \in {AddLimbs(va, vb) : va \in {a}, vb \in {b}} : TRUE

\* the borrow from limb i of a - b
BorrowFrom(a, b, i) ==
    \E j \in 1..(i - 1) :
        /\ a[j] < Limb(b, j)
        /\ \A l \in (j + 1)..(i - 1) : a[l] = Limb(b, l)

SubLimbs(a, b) ==
    Trim([i \in 1..Len(a) |->
            (a[i] - Limb(b, i) - (IF BorrowFrom(a, b, i) THEN 1 ELSE 0)) % Base])
\* a - b for a >= b
BigSub(a, b) == CHOOSE res \in {SubLimbs(va, vb) : va \in {a}, vb \in {b}} : TRUE

LessLimbs(a, b) ==
    IF Len(a) # Len(b) THEN Len(a) < Len(b)
    ELSE \E i \in 1..Len(a) :
            a[i] < b[i] /\ \A j \in (i + 1)..Len(a) : a[j] = b[j]
\* a < b
BigLess(a, b) == CHOOSE res \in {LessLimbs(va, vb) : va \in {a}, vb \in {b}} : TRUE

\* a * k: the low parts of the limb products, and the high parts one limb up
MulLimbs(a, k) ==
    BigAdd([i \in 1..Len(a) |-> (a[i] * k) % Base],
           [i \in 1..(Len(a) + 1) |-> (Limb(a, i - 1) * k) \div Base])
\* a * k for 0 <= k < Base
MulSmall(a, k) == CHOOSE res \in {MulLimbs(va, vb) : va \in {a}, vb \in {k}} : TRUE

\* a times the limbs lo..hi of b, by halves
RECURSIVE MulRows(_, _, _, _)
MulRows(a, b, lo, hi) ==
    IF lo = hi THEN MulSmall(a, b[lo])
    ELSE CHOOSE res \in
            {BigAdd(low, [i \in 1..(((lo + hi) \div 2) - lo + 1) |-> 0] \o high) :
                low \in {MulRows(a, b, lo, (lo + hi) \div 2)},
                high \in {MulRows(a, b, ((lo + hi) \div 2) + 1, hi)}} : TRUE

MulBig(a, b) == IF a = <<>> \/ b = <<>> THEN <<>> ELSE MulRows(a, b, 1, Len(b))
\* a * b
BigMul(a, b) == CHOOSE res \in {MulBig(va, vb) : va \in {a}, vb \in {b}} : TRUE

\* a * 2^(LimbBits * q + r) for r < LimbBits
ShiftLimbsLeft(a, q, r) ==
    Trim([i \in 1..(Len(a) + q + 1) |->
            ((Limb(a, i - q) * (2 ^ r)) % Base)
                + ((Limb(a, i - q - 1) * (2 ^ r)) \div Base)])
\* a * 2^n
ShiftLeft(a, n) ==
    CHOOSE res \in {ShiftLimbsLeft(va, vb \div LimbBits, vb % LimbBits) :
                       va \in {a}, vb \in {n}} : TRUE

\* a divided by 2^(LimbBits * q + r), rounded down, for r < LimbBits
ShiftLimbsRight(a, q, r) ==
    Trim([i \in 1..Max(Len(a) - q, 0) |->
            (Limb(a, i + q) \div (2 ^ r))
                + ((Limb(a, i + q + 1) % (2 ^ r)) * (2 ^ (LimbBits - r)))])
\* a divided by 2^n, rounded down
ShiftRight(a, n) ==
    CHOOSE res \in {ShiftLimbsRight(va, vb \div LimbBits, vb % LimbBits) :
                       va \in {a}, vb \in {n}} : TRUE

LowLimbsZero(a, n) ==
    /\ \A i \in 1..(n \div LimbBits) : Limb(a, i) = 0
    /\ Limb(a, (n \div LimbBits) + 1) % (2 ^ (n % LimbBits)) = 0
\* the n lowest bits of a are zero
LowBitsZero(a, n) ==
    CHOOSE res \in {LowLimbsZero(va, vb) : va \in {a}, vb \in {n}} : TRUE

LimbBit(a, n) == (Limb(a, (n \div LimbBits) + 1) \div (2 ^ (n % LimbBits))) % 2
\* bit n of a
BitAt(a, n) == CHOOSE res \in {LimbBit(va, vb) : va \in {a}, vb \in {n}} : TRUE

RECURSIVE IntBitLen(_)
IntBitLen(n) == IF n = 0 THEN 0 ELSE 1 + IntBitLen(n \div 2)

LimbsBitLen(a) ==
    IF a = <<>> THEN 0 ELSE LimbBits * (Len(a) - 1) + IntBitLen(a[Len(a)])
\* the number of bits of a
BitLen(a) == CHOOSE res \in {LimbsBitLen(va) : va \in {a}} : TRUE

\* the largest q <= guess with b * q <= cur
RECURSIVE FixQuot(_, _, _)
FixQuot(cur, b, guess) ==
    IF BigLess(cur, MulSmall(b, guess)) THEN FixQuot(cur, b, guess - 1)
    ELSE guess

\* the quotient of cur by b for cur < b * Base, the top limb of b at least
\* Base / 2: the guess from the two top limbs is at most 2 too large
QuotDigit(cur, b) ==
    FixQuot(cur, b,
            Min((Limb(cur, Len(b) + 1) * Base + Limb(cur, Len(b))) \div b[Len(b)],
                Base - 1))

\* long division of a by b, limb i of a next, rem the remainder so far and
\* quot the limbs of the quotient so far
RECURSIVE DivLimbs(_, _, _, _, _)
DivLimbs(a, b, i, rem, quot) ==
    IF i = 0 THEN [quot |-> Trim(quot), rem |-> rem]
    ELSE CHOOSE res \in UNION
            {{DivLimbs(a, b, i - 1, BigSub(cur, MulSmall(b, q)), <<q>> \o quot) :
                  q \in {QuotDigit(cur, b)}} :
                cur \in {Trim(<<a[i]>> \o rem)}} : TRUE

\* the division starts with the limbs of a above the first as the
\* remainder: one limb fewer than b has
DivStart(a, b, first) ==
    DivLimbs(a, b, first, SubSeq(a, first + 1, Len(a)), <<>>)

\* a and b scaled by 2^s so that the top limb of b is at least Base / 2
DivScaled(a, b, s) ==
    CHOOSE res \in
        {[quot |-> qr.quot, rem |-> ShiftRight(qr.rem, s)] :
            qr \in {DivStart(va, vb, Max(0, Len(va) - Len(vb) + 1)) :
                       va \in {ShiftLeft(a, s)}, vb \in {ShiftLeft(b, s)}}} : TRUE

DivBig(a, b) == DivScaled(a, b, LimbBits - IntBitLen(b[Len(b)]))
\* the quotient and the remainder of a by b, b not 0
BigDivMod(a, b) == CHOOSE res \in {DivBig(va, vb) : va \in {a}, vb \in {b}} : TRUE

\* Newton's iteration from a guess at or above the root: the guesses fall
\* until the root rounded down is reached
RECURSIVE SqrtNewton(_, _)
SqrtNewton(n, guess) ==
    CHOOSE res \in
        {IF BigLess(next, guess) THEN SqrtNewton(n, next) ELSE guess :
            next \in {ShiftRight(BigAdd(guess, BigDivMod(n, guess).quot), 1)}} :
        TRUE

SqrtBig(n) ==
    IF n = <<>> THEN <<>> ELSE SqrtNewton(n, ShiftLeft(<<1>>, (BitLen(n) + 1) \div 2))
\* the square root of n, rounded down
BigSqrt(n) == CHOOSE res \in {SqrtBig(va) : va \in {n}} : TRUE

\* 10^p
RECURSIVE Pow10(_)
Pow10(p) ==
    IF p = 0 THEN <<1>>
    ELSE IF p % 2 = 1 THEN MulSmall(Pow10(p - 1), 10)
    ELSE CHOOSE res \in {BigMul(h, h) : h \in {Pow10(p \div 2)}} : TRUE

(***************************************************************************)
(* Doubles: a finite number is (-1)^neg * man * 2^exp with man below 2^53; *)
(* man has 53 bits unless exp is MinExp (subnormal numbers); zero has no   *)
(* limb                                                                    *)
(***************************************************************************)
Precision == 53
MinExp == -1074
MaxExp == 971

Value(kind, neg, exp, man) ==
    [kind |-> kind, neg |-> neg, exp |-> exp, man |-> man]
Num(neg, exp, man) == Value("number", neg, exp, man)

NaN == Value("NaN", FALSE, 0, <<>>)
PosInf == Value("Infinity", FALSE, 0, <<>>)
NegInf == Value("Infinity", TRUE, 0, <<>>)
\* the value undefined (prices[-1] of an empty array)
Undefined == Value("undefined", FALSE, 0, <<>>)
\* the value null (JSON.parse of the text null)
Null == Value("null", FALSE, 0, <<>>)
Zero == Num(FALSE, 0, <<>>)
\* the double -0
NegZero == Num(TRUE, 0, <<>>)
\* Number.MIN_VALUE, the smallest double above 0
MinValue == Num(FALSE, MinExp, <<1>>)

\* ToNumber: undefined converts to NaN, null to 0
ToNumber(x) ==
    IF x.kind = "undefined" THEN NaN ELSE IF x.kind = "null" THEN Zero ELSE x

IsNaN(x) == x.kind = "NaN"
IsInf(x) == x.kind = "Infinity"
IsZero(x) == x.kind = "number" /\ x.man = <<>>
IsFinite(x) == x.kind = "number"

Signed(neg, x) == [x EXCEPT !.neg = neg]
SignedZero(neg) == Num(neg, 0, <<>>)
SignedInf(neg) == Value("Infinity", neg, 0, <<>>)

\* the double man * 2^exp: zero, Infinity past the largest double
Finish(neg, man, exp) ==
    IF man = <<>> THEN SignedZero(neg)
    ELSE IF exp > MaxExp THEN SignedInf(neg)
    ELSE Num(neg, exp, man)

\* a significand that rounding up has carried to 2^53
Carry(neg, man, exp) ==
    IF BitLen(man) > Precision THEN Finish(neg, ShiftRight(man, 1), exp + 1)
    ELSE Finish(neg, man, exp)

\* round to nearest, ties to even: the bit below the cut is set, and a bit
\* below it or the bit above it is
RoundsUp(man, shift, sticky) ==
    /\ BitAt(man, shift - 1) = 1
    /\ \/ sticky
       \/ ~LowBitsZero(man, shift - 1)
       \/ BitAt(man, shift) = 1

\* man * 2^exp with its shift lowest bits rounded away
RoundShift(neg, man, exp, sticky, shift) ==
    IF shift <= 0 THEN Finish(neg, ShiftLeft(man, -shift), exp + shift)
    ELSE Carry(neg,
               IF RoundsUp(man, shift, sticky)
               THEN BigAdd(ShiftRight(man, shift), <<1>>)
               ELSE ShiftRight(man, shift),
               exp + shift)

\* the double nearest to (man + s) * 2^exp for man > 0, where 0 < s < 1
\* when sticky and s = 0 otherwise
RoundPack(neg, man, exp, sticky) ==
    CHOOSE res \in
        {RoundShift(neg, va, vb, sticky, Max(BitLen(va) - Precision, MinExp - vb)) :
            va \in {man}, vb \in {exp}} : TRUE

\* the double of an integer
FromInt(n) ==
    IF n = 0 THEN Zero
    ELSE RoundPack(n < 0, BigFromInt(IF n < 0 THEN -n ELSE n), 0, FALSE)

\* (-1)^aneg * ma * 2^exp + (-1)^bneg * mb * 2^exp
AddAligned(aneg, bneg, ma, mb, exp) ==
    IF aneg = bneg THEN RoundPack(aneg, BigAdd(ma, mb), exp, FALSE)
    ELSE IF ma = mb THEN Zero
    ELSE IF BigLess(ma, mb) THEN RoundPack(bneg, BigSub(mb, ma), exp, FALSE)
    ELSE RoundPack(aneg, BigSub(ma, mb), exp, FALSE)

AddFinite(a, b, exp) ==
    CHOOSE res \in
        {AddAligned(a.neg, b.neg, va, vb, exp) :
            va \in {ShiftLeft(a.man, a.exp - exp)},
            vb \in {ShiftLeft(b.man, b.exp - exp)}} : TRUE

\* a + b for b so small that it lies below the three bits that follow the
\* last bit of a: it only tells to which side of a the sum lies
AddSmall(a, b) ==
    IF a.neg = b.neg THEN RoundPack(a.neg, ShiftLeft(a.man, 3), a.exp - 3, TRUE)
    ELSE RoundPack(a.neg, BigSub(ShiftLeft(a.man, 3), <<1>>), a.exp - 3, TRUE)

\* b lies below 2^(a.exp - 3)
FarBelow(a, b) == b.exp + BitLen(b.man) <= a.exp - 3

\* a + b for numbers a and b
AddNumbers(a, b) ==
    IF IsNaN(a) \/ IsNaN(b) THEN NaN
    ELSE IF IsInf(a) /\ IsInf(b) THEN (IF a = b THEN a ELSE NaN)
    ELSE IF IsInf(a) THEN a
    ELSE IF IsInf(b) THEN b
    ELSE IF IsZero(a) /\ IsZero(b)
         THEN (IF a.neg /\ b.neg THEN NegZero ELSE Zero)
    ELSE IF IsZero(a) THEN b
    ELSE IF IsZero(b) THEN a
    ELSE IF FarBelow(a, b) THEN AddSmall(a, b)
    ELSE IF FarBelow(b, a) THEN AddSmall(b, a)
    ELSE AddFinite(a, b, Min(a.exp, b.exp))

\* a + b
FAdd(a0, b0) ==
    CHOOSE res \in {AddNumbers(va, vb) :
                       va \in {ToNumber(a0)}, vb \in {ToNumber(b0)}} : TRUE

\* -a for a number a
NegateNumber(a) == IF IsNaN(a) THEN NaN ELSE Signed(~a.neg, a)

\* -a
FNeg(a0) == CHOOSE res \in {NegateNumber(va) : va \in {ToNumber(a0)}} : TRUE

\* a - b
FSub(a0, b0) ==
    CHOOSE res \in {AddNumbers(va, vb) :
                       va \in {ToNumber(a0)}, vb \in {FNeg(b0)}} : TRUE

\* a * b for numbers a and b
MultiplyNumbers(a, b) ==
    IF IsNaN(a) \/ IsNaN(b) THEN NaN
    ELSE IF IsInf(a) \/ IsInf(b)
         THEN (IF IsZero(a) \/ IsZero(b) THEN NaN ELSE SignedInf(a.neg # b.neg))
    ELSE IF IsZero(a) \/ IsZero(b) THEN SignedZero(a.neg # b.neg)
    ELSE RoundPack(a.neg # b.neg, BigMul(a.man, b.man), a.exp + b.exp, FALSE)

\* a * b
FMul(a0, b0) ==
    CHOOSE res \in {MultiplyNumbers(va, vb) :
                       va \in {ToNumber(a0)}, vb \in {ToNumber(b0)}} : TRUE

\* the double nearest to (num / den) * 2^exp, num shifted by k bits to give
\* the quotient at least Precision + 3 bits before the one rounding
RoundShifted(neg, num, den, exp, k) ==
    CHOOSE res \in
        {RoundPack(neg, qr.quot, exp - k, qr.rem # <<>>) :
            qr \in {BigDivMod(ShiftLeft(num, k), den)}} : TRUE

RoundQuotient(neg, num, den, exp) ==
    CHOOSE res \in
        {RoundShifted(neg, va, vb, exp,
                      Max(0, Precision + 3 + BitLen(vb) - BitLen(va))) :
            va \in {num}, vb \in {den}} : TRUE

\* a / b for numbers a and b
DivideNumbers(a, b) ==
    IF IsNaN(a) \/ IsNaN(b) THEN NaN
    ELSE IF IsInf(a) /\ IsInf(b) THEN NaN
    ELSE IF IsZero(a) /\ IsZero(b) THEN NaN
    ELSE IF IsInf(a) \/ IsZero(b) THEN SignedInf(a.neg # b.neg)
    ELSE IF IsInf(b) \/ IsZero(a) THEN SignedZero(a.neg # b.neg)
    ELSE RoundQuotient(a.neg # b.neg, a.man, b.man, a.exp - b.exp)

\* a / b
FDiv(a0, b0) ==
    CHOOSE res \in {DivideNumbers(va, vb) :
                       va \in {ToNumber(a0)}, vb \in {ToNumber(b0)}} : TRUE

\* |a| < |b| for finite a and b
MagLess(a, b) ==
    IF IsZero(b) THEN FALSE
    ELSE IF IsZero(a) THEN TRUE
    ELSE IF a.exp # b.exp THEN a.exp < b.exp
    ELSE BigLess(a.man, b.man)

\* a > b for numbers a and b: false when either side is NaN, and -0 equals 0
GreaterNumber(a, b) ==
    IF IsNaN(a) \/ IsNaN(b) THEN FALSE
    ELSE IF IsInf(a) THEN ~a.neg /\ b # a
    ELSE IF IsInf(b) THEN b.neg
    ELSE IF a.neg # b.neg THEN b.neg /\ ~(IsZero(a) /\ IsZero(b))
    ELSE IF a.neg THEN MagLess(a, b)
    ELSE MagLess(b, a)

\* a > b as JavaScript evaluates it
FGreater(a0, b0) ==
    CHOOSE res \in {GreaterNumber(va, vb) :
                       va \in {ToNumber(a0)}, vb \in {ToNumber(b0)}} : TRUE

\* the root of man * 2^exp for exp even and man of at least 2 * Precision + 2
\* bits: the integer root, then one rounding
SqrtFinite(man, exp) ==
    CHOOSE res \in
        {RoundPack(FALSE, root, exp \div 2, BigMul(root, root) # man) :
            root \in {BigSqrt(man)}} : TRUE

\* the shift that gives the significand enough bits and an even exponent
SqrtShift(v) ==
    2 * Precision + 4 - BitLen(v.man) + ((v.exp + BitLen(v.man)) % 2)

\* Math.sqrt of a number
SqrtNumber(v) ==
    IF IsNaN(v) THEN NaN
    ELSE IF IsZero(v) THEN v
    ELSE IF v.neg THEN NaN
    ELSE IF IsInf(v) THEN v
    ELSE SqrtFinite(ShiftLeft(v.man, SqrtShift(v)), v.exp - SqrtShift(v))

\* Math.sqrt
FSqrt(v0) == CHOOSE res \in {SqrtNumber(va) : va \in {ToNumber(v0)}} : TRUE

\* the whole number at or below a finite v that has a fraction part
FloorFraction(v, whole) ==
    IF v.neg THEN RoundPack(TRUE, BigAdd(whole, <<1>>), 0, FALSE)
    ELSE IF whole = <<>> THEN Zero
    ELSE RoundPack(FALSE, whole, 0, FALSE)

\* Math.floor of a number
FloorNumber(v) ==
    IF ~IsFinite(v) \/ IsZero(v) \/ v.exp >= 0 THEN v
    ELSE IF LowBitsZero(v.man, -v.exp) THEN v
    ELSE FloorFraction(v, ShiftRight(v.man, -v.exp))

\* Math.floor
FFloor(v0) == CHOOSE res \in {FloorNumber(va) : va \in {ToNumber(v0)}} : TRUE

\* the natural number a double stands for, -1 when it stands for none or
\* for one of 2^30 or more
IndexOfNumber(v) ==
    IF ~IsFinite(v) THEN -1
    ELSE IF IsZero(v) THEN 0
    ELSE IF v.neg \/ v.exp > 0 \/ v.exp + BitLen(v.man) > 30 THEN -1
    ELSE IF ~LowBitsZero(v.man, -v.exp) THEN -1
    ELSE BigToInt(ShiftRight(v.man, -v.exp))

IndexOf(v0) == CHOOSE res \in {IndexOfNumber(va) : va \in {ToNumber(v0)}} : TRUE

\* the entries s[lo..hi] added to acc one after the other, from the left;
\* the range is split in two to keep the evaluation shallow
RECURSIVE SumRange(_, _, _, _)
SumRange(s, lo, hi, acc) ==
    IF lo > hi THEN acc
    ELSE IF lo = hi THEN FAdd(acc, s[lo])
    ELSE CHOOSE res \in
            {SumRange(s, ((lo + hi) \div 2) + 1, hi, left) :
                left \in {SumRange(s, lo, (lo + hi) \div 2, acc)}} : TRUE

\* reduce((sum, x) => sum + x, 0)
SeqSum(s) == SumRange(s, 1, Len(s), Zero)

(***************************************************************************)
(* State                                                                   *)
(***************************************************************************)
VARIABLES
    \* DOM
    btnDisabled,      \* runBtn.disabled
    loadingActive,    \* loadingDiv has class 'active'
    errorActive,      \* errorDiv has class 'active'
    errorText,        \* errorDiv.textContent
    resultsActive,    \* resultsSection has class 'active'
    shown,            \* the four price fields written by displayResults
    bins,             \* the bins array of drawHistogram (indices 0..k-1)
    binsNaNProp,      \* the bins array has a non-index property "NaN"
    \* displayResults
    results,          \* the results object handed to displayResults
    dpc,              \* "idle" | "ready" | "displayed" | "drawn" | "threw"
    \* runMonteCarloSimulation and boxMullerRandom
    hist,             \* the prices argument
    spc,              \* "idle" | "start" | "u1" | "u2" | "loop" | "done"
    avgReturn,
    volatility,
    startPrice,
    sim,              \* outer loop counter
    day,              \* inner loop counter
    price,            \* the running price of the current path
    finalPrices,      \* the finalPrices array
    generated,        \* the terminal prices in the order they were pushed
    u1,               \* the draw u1 = k/UnifDen, held as k
    u2,               \* the draw u2 = k/UnifDen, held as k
    u1Redrawn,        \* the while loop of this call has redrawn u1
    u2Draws,          \* Math.random() calls that set u2 in this call
    logArg,           \* the arguments Math.log was called with, as k
    simSteps,         \* executions of the inner loop body
    simOutcome,       \* "none" | "returned" | the name of the error thrown
    aboveMinusOne,    \* every sampled return so far was > -1
    underflowed,      \* a positive price times a positive factor gave 0
    \* runAnalysis and fetchCommodityData
    cache,            \* localStorage, by symbol
    now,              \* the clock, in steps of TickMillis
    inflight,         \* the runAnalysis calls that have not finished
    lastSource,       \* where the last simulated history came from
    lastOutcome       \* how the last finished runAnalysis ended

domvars == <<btnDisabled, loadingActive, errorActive, errorText, resultsActive,
             shown, bins, binsNaNProp>>
dispvars == <<results, dpc>>
simvars == <<hist, spc, avgReturn, volatility, startPrice, sim, day, price,
             finalPrices, generated, u1, u2, u1Redrawn, u2Draws, logArg,
             simSteps, simOutcome, aboveMinusOne, underflowed>>

uivars == <<cache, now, inflight, lastSource, lastOutcome>>

vars == <<domvars, dispvars, simvars, uivars>>

DomIdle ==
    /\ btnDisabled = FALSE
    /\ loadingActive = FALSE
    /\ errorActive = FALSE
    /\ errorText = ""
    /\ resultsActive = FALSE

SimIdle ==
    /\ hist = <<>>
    /\ spc = "idle"
    /\ avgReturn = Zero
    /\ volatility = Zero
    /\ startPrice = Zero
    /\ sim = 0
    /\ day = 0
    /\ price = Zero
    /\ finalPrices = <<>>
    /\ generated = <<>>
    /\ u1 = 0
    /\ u2 = 0
    /\ u1Redrawn = FALSE
    /\ u2Draws = 0
    /\ logArg = <<>>
    /\ simSteps = 0
    /\ simOutcome = "none"
    /\ aboveMinusOne = TRUE
    /\ underflowed = FALSE

(***************************************************************************)
(* Decimal text: strings are sequences of characters                       *)
(***************************************************************************)
DigitChars == <<"0", "1", "2", "3", "4", "5", "6", "7", "8", "9">>
IsDigit(c) == \E d \in 1..10 : DigitChars[d] = c
DigitValue(c) == (CHOOSE d \in 1..10 : DigitChars[d] = c) - 1

\* the number of digits that start at position i of str
DigitRun(str, i) ==
    CHOOSE n \in 0..Max(Len(str) - i + 1, 0) :
        /\ \A j \in i..(i + n - 1) : IsDigit(str[j])
        /\ i + n > Len(str) \/ ~IsDigit(str[i + n])

\* the digits of a number that fits an integer of the model
ChunkLen == 9

\* the number written by the digits str[lo..hi], at most ChunkLen of them
RECURSIVE SmallDigits(_, _, _)
SmallDigits(str, lo, hi) ==
    IF lo > hi THEN 0
    ELSE 10 * SmallDigits(str, lo, hi - 1) + DigitValue(str[hi])

\* the number written by the digits str[lo..hi], by halves
RECURSIVE DigitsValue(_, _, _)
DigitsValue(str, lo, hi) ==
    IF hi - lo < ChunkLen THEN BigFromInt(SmallDigits(str, lo, hi))
    ELSE CHOOSE res \in
            {BigAdd(BigMul(high, Pow10(hi - ((lo + hi) \div 2))), low) :
                high \in {DigitsValue(str, lo, (lo + hi) \div 2)},
                low \in {DigitsValue(str, ((lo + hi) \div 2) + 1, hi)}} : TRUE

\* a value of 10^309 or more is past the largest double; one below 10^-324
\* is less than half the smallest
MaxDecimalExp == 309
MinDecimalExp == -324

\* the position of the first digit of mant that is not 0; 0 when there is none
FirstNonZero(mant) ==
    IF \A i \in 1..Len(mant) : mant[i] = "0" THEN 0
    ELSE CHOOSE i \in 1..Len(mant) :
            mant[i] # "0" /\ \A j \in 1..(i - 1) : mant[j] = "0"

\* the double nearest to d * 10^p
DecimalExact(neg, d, p) ==
    IF p >= 0 THEN RoundPack(neg, BigMul(d, Pow10(p)), 0, FALSE)
    ELSE RoundQuotient(neg, d, Pow10(-p), 0)

\* the double nearest to 0.d1d2d3... * 10^point for the digits d of mant,
\* the first of them that is not 0 at position first
DecimalFrom(neg, mant, point, first) ==
    IF first = 0 THEN SignedZero(neg)
    ELSE IF point - first >= MaxDecimalExp THEN SignedInf(neg)
    ELSE IF point - first < MinDecimalExp THEN SignedZero(neg)
    ELSE DecimalExact(neg, DigitsValue(mant, first, Len(mant)), point - Len(mant))

DecimalValue(neg, mant, point) ==
    CHOOSE res \in
        {DecimalFrom(neg, va, vb, FirstNonZero(va)) :
            va \in {mant}, vb \in {point}} : TRUE

\* the exponent the digits str[lo..hi] write, the first of them that is not
\* 0 at position first of the run; more than ChunkLen digits after the
\* leading zeros write one past every double
ExponentFrom(str, lo, hi, first) ==
    IF first = 0 THEN 0
    ELSE IF hi - (lo + first - 1) >= ChunkLen THEN 10 ^ ChunkLen
    ELSE SmallDigits(str, lo + first - 1, hi)

\* the exponent a run of n digits at position i of str writes
ExponentValue(str, i, n) ==
    ExponentFrom(str, i, i + n - 1, FirstNonZero(SubSeq(str, i, i + n - 1)))

ExponentDigits(str, i) == ExponentValue(str, i, DigitRun(str, i))

\* the exponent part that starts at position e0 of str: e or E, a sign and
\* digits; 0 when there is none
Exponent(str, e0) ==
    IF e0 > Len(str) \/ str[e0] \notin {"e", "E"} THEN 0
    ELSE IF e0 + 1 <= Len(str) /\ str[e0 + 1] = "-"
    THEN -ExponentDigits(str, e0 + 2)
    ELSE IF e0 + 1 <= Len(str) /\ str[e0 + 1] = "+"
    THEN ExponentDigits(str, e0 + 2)
    ELSE ExponentDigits(str, e0 + 1)

\* a decimal point at position i of str
HasDot(str, i) == i <= Len(str) /\ str[i] = "."

\* the decimal literal at position i0 of str with nInt digits before the
\* point and nFrac digits after it
ParseDecimal(str, neg, i0, nInt, nFrac) ==
    IF nInt + nFrac = 0 THEN NaN
    ELSE DecimalValue(neg,
            SubSeq(str, i0, i0 + nInt - 1)
                \o SubSeq(str, i0 + nInt + 1, i0 + nInt + nFrac),
            nInt + Exponent(str, IF HasDot(str, i0 + nInt)
                                 THEN i0 + nInt + 1 + nFrac
                                 ELSE i0 + nInt))

InfinityText == <<"I", "n", "f", "i", "n", "i", "t", "y">>

\* Infinity or a decimal literal at position i0 of str
ParseUnsigned(str, neg, i0) ==
    IF Len(str) >= i0 + Len(InfinityText) - 1
          /\ SubSeq(str, i0, i0 + Len(InfinityText) - 1) = InfinityText
    THEN SignedInf(neg)
    ELSE CHOOSE res \in UNION
            {{ParseDecimal(str, neg, i0, nInt, nFrac) :
                  nFrac \in {IF HasDot(str, i0 + nInt)
                             THEN DigitRun(str, i0 + nInt + 1) ELSE 0}} :
                nInt \in {DigitRun(str, i0)}} : TRUE

\* a sign, then Infinity or a decimal literal
ParseSigned(str) ==
    ParseUnsigned(str, str # <<>> /\ str[1] = "-",
                  IF str # <<>> /\ str[1] \in {"+", "-"} THEN 2 ELSE 1)

\* StrWhiteSpaceChar: the white space and the line terminators, TAB, LF, VT,
\* FF, CR, SP, U+00A0, U+1680, U+2000 to U+200A, U+2028, U+2029, U+202F,
\* U+205F, U+3000 and U+FEFF.  A character that a string of this module
\* cannot hold is written by its escape
WhiteSpace ==
    {" ", "\t", "\n", "\r", "\f", "", " ", " ", "﻿",
     "\\v", "\\u000B", "\\u00A0", "\\u1680", "\\uFEFF",
     "\\u2000", "\\u2001", "\\u2002", "\\u2003", "\\u2004", "\\u2005",
     "\\u2006", "\\u2007", "\\u2008", "\\u2009", "\\u200A", "\\u2028",
     "\\u2029", "\\u202F", "\\u205F", "\\u3000"}

\* the position of the first character of str that is not white space
FirstBlack(str) ==
    CHOOSE i \in 1..(Len(str) + 1) :
        /\ \A j \in 1..(i - 1) : str[j] \in WhiteSpace
        /\ i > Len(str) \/ str[i] \notin WhiteSpace

SkipWhite(str) == SubSeq(str, FirstBlack(str), Len(str))

\* parseFloat on a string of characters: white space, a sign, then Infinity
\* or the longest decimal literal (digits, a fraction, an exponent); NaN
\* when there is none
ParseFloat(str0) == CHOOSE res \in {ParseSigned(va) : va \in {SkipWhite(str0)}} : TRUE

(***************************************************************************)
(* Number::toString                                                        *)
(***************************************************************************)
\* man * 2^e2 * 10^e10 as the quotient of two natural numbers
ScaledNum(man, e2, e10) ==
    BigMul(ShiftLeft(man, Max(e2, 0)), Pow10(Max(e10, 0)))
ScaledDen(e2, e10) == BigMul(ShiftLeft(<<1>>, Max(-e2, 0)), Pow10(Max(-e10, 0)))

\* a <= b
BigLeq(a, b) == ~BigLess(b, a)

\* the n with 10^(n-1) <= x < 10^n for a finite x > 0: n0 or n0 + 1, n0
\* from the number of bits of x
DecimalPoint(x, n0) ==
    IF BigLeq(ScaledDen(x.exp, -n0), ScaledNum(x.man, x.exp, -n0)) THEN n0 + 1
    ELSE n0

PointOf(x) ==
    CHOOSE res \in
        {DecimalPoint(x, va) :
            va \in {(((BitLen(x.man) + x.exp - 1) * 30103) \div 100000) + 1}} :
        TRUE

\* the doubles next to x are half as far below it as above it when x is a
\* power of 2 that is not the smallest normal number
AtBinade(x) ==
    x.exp > MinExp /\ BitLen(x.man) = Precision /\ LowBitsZero(x.man, Precision - 1)

\* a decimal at distance dist / (4 * den) from x rounds to x: it lies within
\* half the gap, gap / (4 * den), to the next double; a tie goes to the
\* double with the even significand
RoundsTo(x, dist, gap) ==
    IF BitAt(x.man, 0) = 0 THEN BigLeq(dist, gap) ELSE BigLess(dist, gap)

\* the k-digit decimals next to x, x * 10^(k-n) = (quot + rem / den): the
\* one below, quot, and the one above, quot + 1, with the one to take
Nearest(x, qr, den, ulp) ==
    [below |-> RoundsTo(x, MulSmall(qr.rem, 4),
                        IF AtBinade(x) THEN ulp ELSE MulSmall(ulp, 2)),
     above |-> RoundsTo(x, MulSmall(BigSub(den, qr.rem), 4), MulSmall(ulp, 2)),
     up |-> \/ BigLess(den, MulSmall(qr.rem, 2))
            \/ MulSmall(qr.rem, 2) = den /\ BitAt(qr.quot, 0) = 1,
     quot |-> qr.quot]

Candidates(x, n, k) ==
    CHOOSE res \in
        {Nearest(x, BigDivMod(ScaledNum(x.man, x.exp, k - n), den), den, ulp) :
            den \in {ScaledDen(x.exp, k - n)},
            ulp \in {ScaledNum(<<1>>, x.exp, k - n)}} : TRUE

\* a decimal of k digits rounds to x
HasDecimal(x, n, k) ==
    CHOOSE res \in {c.below \/ c.above : c \in {Candidates(x, n, k)}} : TRUE

\* the most digits a double needs
MaxDigits == 17

\* the least number of digits of a decimal that rounds to x
RECURSIVE ShortestLen(_, _, _)
ShortestLen(x, n, k) ==
    IF k >= MaxDigits \/ HasDecimal(x, n, k) THEN k ELSE ShortestLen(x, n, k + 1)

\* the decimal of k digits that rounds to x and is nearest to it
ShortestDecimal(x, n, k) ==
    CHOOSE res \in
        {IF c.below /\ c.above
         THEN (IF c.up THEN BigAdd(c.quot, <<1>>) ELSE c.quot)
         ELSE IF c.below THEN c.quot
         ELSE BigAdd(c.quot, <<1>>) :
            c \in {Candidates(x, n, k)}} : TRUE

RECURSIVE Digits(_)
Digits(n) ==
    IF n < 10 THEN <<DigitChars[n + 1]>>
    ELSE Digits(n \div 10) \o <<DigitChars[(n % 10) + 1]>>

Zeros(n) == [i \in 1..n |-> "0"]

\* the digits of a natural number below 10^18
BigDigits(c) ==
    CHOOSE res \in
        {IF qr.quot = <<>> THEN low
         ELSE Digits(BigToInt(qr.quot)) \o Zeros(ChunkLen - Len(low)) \o low :
            <<qr, low>> \in
                {<<d, Digits(BigToInt(d.rem))>> :
                    d \in {BigDivMod(c, Pow10(ChunkLen))}}} : TRUE

\* s without the zeros at its end
LastNonZero(s) ==
    CHOOSE i \in 1..Len(s) :
        /\ i = 1 \/ s[i] # "0"
        /\ \A j \in (i + 1)..Len(s) : s[j] = "0"
StripZeros(s) == SubSeq(s, 1, LastNonZero(s))

\* the digits and the decimal point n of x: 0.d1d2...dk * 10^n; the decimal
\* above x can have one digit more, 10^k
DigitsAndPoint(all, n, k) ==
    [digits |-> StripZeros(all), point |-> n + Len(all) - k]

ShortestDigits(x, n, k) ==
    CHOOSE res \in
        {DigitsAndPoint(all, n, k) :
            all \in {BigDigits(ShortestDecimal(x, n, k))}} : TRUE

\* the digits s and the n of Number::toString for a finite x > 0
Shortest(x) ==
    CHOOSE res \in UNION
        {{ShortestDigits(x, n, k) : k \in {ShortestLen(x, n, 1)}} :
            n \in {PointOf(x)}} : TRUE

\* the largest n written without an exponent, and the smallest
MaxPlainPoint == 21
MinPlainPoint == -5

\* the text of the digits s with the decimal point after n of them
FormatDigits(s, n) ==
    IF Len(s) <= n /\ n <= MaxPlainPoint THEN s \o Zeros(n - Len(s))
    ELSE IF 0 < n /\ n <= MaxPlainPoint
    THEN SubSeq(s, 1, n) \o <<".">> \o SubSeq(s, n + 1, Len(s))
    ELSE IF MinPlainPoint <= n /\ n <= 0
    THEN <<"0", ".">> \o Zeros(-n) \o s
    ELSE <<s[1]>>
            \o (IF Len(s) = 1 THEN <<>> ELSE <<".">> \o SubSeq(s, 2, Len(s)))
            \o <<"e", IF n - 1 < 0 THEN "-" ELSE "+">>
            \o Digits(IF n - 1 < 0 THEN 1 - n ELSE n - 1)

\* Number::toString of a number
NumberText(x) ==
    IF IsNaN(x) THEN <<"N", "a", "N">>
    ELSE IF IsInf(x) THEN (IF x.neg THEN <<"-">> ELSE <<>>) \o InfinityText
    ELSE IF IsZero(x) THEN <<"0">>
    ELSE (IF x.neg THEN <<"-">> ELSE <<>>)
            \o (CHOOSE res \in {FormatDigits(sn.digits, sn.point) :
                                   sn \in {Shortest(x)}} : TRUE)

NumberToString(x0) == CHOOSE res \in {NumberText(va) : va \in {ToNumber(x0)}} : TRUE

(***************************************************************************)
(* fetchCommodityData: symbols, responses, parsing and the cache           *)
(***************************************************************************)
\* the keys of commodityMapping
Mapped == {"COPPER", "WTI", "ALUMINUM"}
\* the values commoditySelect takes in the modelled runs: two mapped
\* symbols, and one value without a mapping, which line 78 rejects
Symbols == {"COPPER", "WTI", "GOLD"}

NullText == <<"n", "u", "l", "l">>

\* JSON.stringify of a number: the text of Number::toString; null for NaN
\* and the infinities, and for null and for undefined inside an array
NumberToJSON(x) == IF ~IsFinite(x) THEN NullText ELSE NumberToString(x)

\* JSON.parse of the text of a number or of null
NumberFromJSON(str) == IF str = NullText THEN Null ELSE ParseFloat(str)

\* JSON.stringify({timestamp, prices}), the text of each number
StringifyObject(obj) ==
    [timestamp |-> NumberToJSON(obj.timestamp),
     prices |-> <<>> \o [i \in 1..Len(obj.prices) |-> NumberToJSON(obj.prices[i])]]

\* JSON.parse of such a text
ParseObject(text) ==
    [timestamp |-> NumberFromJSON(text.timestamp),
     prices |-> <<>> \o [i \in 1..Len(text.prices) |->
                            NumberFromJSON(text.prices[i])]]

\* localStorage.getItem gives null for a key that was never set
NoEntry == [present |-> FALSE, text |-> [timestamp |-> <<>>, prices |-> <<>>]]
Entry(text) == [present |-> TRUE, text |-> text]

\* Date.now(), in ms
DateNow == FromInt(now * TickMillis)

\* cacheAge < 24 * 60 * 60 * 1000
CacheFresh(parsedCache) ==
    FGreater(FromInt(CacheTTL), FSub(DateNow, parsedCache.timestamp))

\* data['data'].sort((a, b) => new Date(a.date) - new Date(b.date))
\* a stable sort: an item goes after the items of an earlier date and after
\* the earlier items of the same date
DateRank(s, i) ==
    Cardinality({j \in 1..Len(s) :
        \/ s[j].date < s[i].date
        \/ s[j].date = s[i].date /\ j < i}) + 1

SortByDate(s) ==
    CHOOSE res \in
        {[k \in 1..Len(s) |-> s[CHOOSE i \in 1..Len(s) : rank[i] = k]] :
            rank \in {<<>> \o [i \in 1..Len(s) |-> DateRank(s, i)]}} : TRUE

\* sortedData.map(item => parseFloat(item.value))
ParsedPrices(data) ==
    <<>> \o [i \in 1..Len(data) |-> ParseFloat(data[i].value)]

\* prices.slice(-100)
KeepAll(ps, n) == ps
LastN(ps, n) == IF Len(ps) <= n THEN ps ELSE SubSeq(ps, Len(ps) - n + 1, Len(ps))

\* lines 97-107 on the parsed prices
ProcessPrices(ps) ==
    IF Len(ps) < MinHistory
    THEN [ok |-> FALSE, message |-> "Not enough historical data", prices |-> <<>>]
    ELSE [ok |-> TRUE, message |-> "", prices |-> LastN(ps, HistoryWindow)]

\* lines 88-107 on a parsed body: the error thrown, or the prices returned
\* and cached
ProcessBody(body) ==
    IF body.hasError THEN [ok |-> FALSE, message |-> "Invalid symbol", prices |-> <<>>]
    ELSE IF body.hasNote
    THEN [ok |-> FALSE, message |-> "API rate limit reached. Please wait a minute.",
          prices |-> <<>>]
    ELSE IF ~body.hasData
    THEN [ok |-> FALSE, message |-> "No data returned", prices |-> <<>>]
    ELSE CHOOSE res \in
            {ProcessPrices(ps) : ps \in {ParsedPrices(SortByDate(body.data))}} :
            TRUE

\* the values of the series a response carries: a flat series, one that
\* swings between two values, and a swinging one whose newest value is the
\* "." the API sends for a missing observation
SeriesValue(kind, date, n) ==
    IF kind = "flat" THEN <<"4", ".", "5">>
    ELSE IF kind = "gap" /\ date = n THEN <<".">>
    ELSE IF date % 2 = 1 THEN <<"1">> ELSE <<"4">>
\* newest first, as the API sends it
Series(kind, n) ==
    [i \in 1..n |-> [date |-> n - i + 1, value |-> SeriesValue(kind, n - i + 1, n)]]

\* the series of the modelled responses: one too short, two of exactly the
\* minimum length, one longer than the window
ResponseSeries ==
    {Series("swing", MinHistory - 1), Series("swing", MinHistory),
     Series("gap", MinHistory), Series("flat", HistoryWindow + 1)}

DataBody(d) == [hasError |-> FALSE, hasNote |-> FALSE, hasData |-> TRUE, data |-> d]
Bodies ==
    {[hasError |-> TRUE, hasNote |-> FALSE, hasData |-> FALSE, data |-> <<>>],
     [hasError |-> FALSE, hasNote |-> TRUE, hasData |-> FALSE, data |-> <<>>],
     [hasError |-> FALSE, hasNote |-> FALSE, hasData |-> FALSE, data |-> <<>>]}
    \cup {DataBody(d) : d \in ResponseSeries}

\* what lines 88-107 make of each body
BodyOutcomes == {ProcessBody(body) : body \in Bodies}

\* the objects line 102 stores for these outcomes, each with its text,
\* converted once
StoredObjects ==
    {[obj |-> o, text |-> StringifyObject(o)] :
        o \in {[timestamp |-> FromInt(t * TickMillis), prices |-> out.prices] :
                  t \in 0..MaxTicks, out \in {b \in BodyOutcomes : b.ok}}}

\* the text in the entries found, or the conversion itself
TextOf(found, obj) ==
    IF found = {} THEN StringifyObject(obj) ELSE (CHOOSE e \in found : TRUE).text

\* JSON.stringify({timestamp, prices})
JSONStringify(obj) == TextOf({e \in StoredObjects : e.obj = obj}, obj)

\* the texts of these objects, each with the object JSON.parse makes of it,
\* converted once
StoredTexts ==
    {[text |-> t, obj |-> ParseObject(t)] : t \in {e.text : e \in StoredObjects}}

\* the object in the entries found, or the conversion itself
ObjectOf(found, text) ==
    IF found = {} THEN ParseObject(text) ELSE (CHOOSE e \in found : TRUE).obj

\* JSON.parse(cached)
JSONParse(text) == ObjectOf({e \in StoredTexts : e.text = text}, text)

UIIdle ==
    /\ cache = [s \in Symbols |-> NoEntry]
    /\ now = 0
    /\ inflight = <<>>
    /\ lastSource = "none"
    /\ lastOutcome = "none"

(***************************************************************************)
(* drawHistogram                                                           *)
(***************************************************************************)
\* Math.min and Math.max of two numbers: NaN when either is NaN, and -0
\* counts as less than 0
MinOf(a, b) ==
    IF IsNaN(a) \/ IsNaN(b) THEN NaN
    ELSE IF FGreater(a, b) THEN b
    ELSE IF FGreater(b, a) THEN a
    ELSE IF b.neg THEN b ELSE a
MaxOf(a, b) ==
    IF IsNaN(a) \/ IsNaN(b) THEN NaN
    ELSE IF FGreater(a, b) THEN a
    ELSE IF FGreater(b, a) THEN b
    ELSE IF b.neg THEN a ELSE b

\* Math.min of the entries s[lo..hi], by halves
RECURSIVE MinRange(_, _, _)
MinRange(s, lo, hi) ==
    IF lo = hi THEN ToNumber(s[lo])
    ELSE CHOOSE res \in
            {MinOf(low, high) :
                low \in {MinRange(s, lo, (lo + hi) \div 2)},
                high \in {MinRange(s, ((lo + hi) \div 2) + 1, hi)}} : TRUE

\* Math.max of the entries s[lo..hi], by halves
RECURSIVE MaxRange(_, _, _)
MaxRange(s, lo, hi) ==
    IF lo = hi THEN ToNumber(s[lo])
    ELSE CHOOSE res \in
            {MaxOf(low, high) :
                low \in {MaxRange(s, lo, (lo + hi) \div 2)},
                high \in {MaxRange(s, ((lo + hi) \div 2) + 1, hi)}} : TRUE

\* Math.min(...prices): Infinity without arguments
SeqMin(s) == IF Len(s) = 0 THEN PosInf ELSE MinRange(s, 1, Len(s))

\* Math.max(...prices): -Infinity without arguments
SeqMax(s) == IF Len(s) = 0 THEN NegInf ELSE MaxRange(s, 1, Len(s))

\* binWidth = (maxPrice - minPrice) / numBins
BinWidth(minPrice, maxPrice, numBins) ==
    FDiv(FSub(maxPrice, minPrice), FromInt(numBins))

\* idx = Math.min(Math.floor((price - minPrice) / binWidth), numBins - 1)
BinIndex(p, minPrice, binWidth, numBins) ==
    CHOOSE res \in
        {MinOf(floor, FromInt(numBins - 1)) :
            floor \in {FFloor(FDiv(FSub(p, minPrice), binWidth))}} : TRUE

\* the property of the bins array that idx names: the array index, -1 for
\* a key that is no index, and whether the key is "NaN"
BinSlot(idx) == [index |-> IndexOf(idx), isNaN |-> IsNaN(idx)]

\* the slot of each of the prices in keys; equal prices have the same idx,
\* which is computed once
SlotTable(keys, numBins, minPrice, binWidth) ==
    {[price |-> v, slot |-> BinSlot(BinIndex(v, minPrice, binWidth, numBins))] :
        v \in keys}

SlotIn(table, p) == (CHOOSE e \in table : e.price = p).slot

\* the slot of each entry of prices
Slots(prices, numBins, minPrice, binWidth) ==
    CHOOSE res \in
        {<<>> \o [j \in 1..Len(prices) |-> SlotIn(table, prices[j])] :
            table \in {SlotTable({prices[j] : j \in 1..Len(prices)}, numBins,
                                 minPrice, binWidth)}} : TRUE

\* step 2 of drawHistogram; bins[i + 1] is the code's bins[i].  bins[idx]++
\* counts an index in 0..k-1; with the key NaN it only sets a property named
\* "NaN" on the array object
CountBins(prices, numBins, minPrice, binWidth) ==
    CHOOSE res \in
        {[bins |-> <<>> \o [i \in 1..numBins |->
                      Cardinality({j \in 1..Len(slots) : slots[j].index = i - 1})],
          nanProp |-> \E j \in 1..Len(slots) : slots[j].isNaN] :
            slots \in {Slots(prices, numBins, minPrice, binWidth)}} : TRUE

\* steps 1 and 2 of drawHistogram: minPrice and maxPrice are computed once
DrawHistogram(prices, numBins) ==
    CHOOSE res \in
        {CountBins(prices, numBins, lo, BinWidth(lo, hi, numBins)) :
            lo \in {SeqMin(prices)}, hi \in {SeqMax(prices)}} : TRUE

(***************************************************************************)
(* boxMullerRandom and runMonteCarloSimulation                             *)
(***************************************************************************)
\* the values Math.random() can return: k/UnifDen for k in 0..UnifDen-1
Uniforms == 0..(UnifDen - 1)

\* the double nearest to ln(1/2), -0.6931471805599453
LogHalf ==
    ParseFloat(<<"-", "0", ".", "6", "9", "3", "1", "4", "7", "1", "8", "0", "5", "5", "9", "9", "4", "5", "3">>)

\* Math.log(u) for u = 0 and u = 1/2
MathLog(u) == <<NegInf, LogHalf>>[u + 1]

\* Math.cos(2.0 * Math.PI * u) for u = 0 and u = 1/2: the cosines of 0 and
\* of the double nearest to pi
Cos2Pi(u) == <<FromInt(1), FromInt(-1)>>[u + 1]

\* z0 = Math.sqrt(-2.0 * Math.log(u1)) * Math.cos(2.0 * Math.PI * u2), for
\* each pair of draws
Z0 ==
    [a \in Uniforms, b \in Uniforms |->
        FMul(FSqrt(FMul(FromInt(-2), MathLog(a))), Cos2Pi(b))]

\* the loop condition  u1 === 0
NeverRedraw(u) == FALSE
NeedsRedraw(u) == u = 0

\* mean + z0 * stdDev
BoxMullerValue(mean, stdDev, a, b) == FAdd(mean, FMul(Z0[a, b], stdDev))

\* (prices[i] - prices[i - 1]) / prices[i - 1]
DailyReturn(today, yesterday) == FDiv(FSub(today, yesterday), yesterday)

\* the returns array
Returns(ps) ==
    IF Len(ps) < 2 THEN <<>>
    ELSE <<>> \o [i \in 1..(Len(ps) - 1) |-> DailyReturn(ps[i + 1], ps[i])]

\* returns.reduce((sum, r) => sum + r, 0) / returns.length
AvgReturn(rs) == FDiv(SeqSum(rs), FromInt(Len(rs)))

\* Math.pow(d, 2): the square of d, rounded once
Square(d) == CHOOSE res \in {FMul(va, va) : va \in {d}} : TRUE

\* Math.pow(r - avgReturn, 2) for each return
SquaredDeviations(rs, avg) ==
    <<>> \o [i \in 1..Len(rs) |-> Square(FSub(rs[i], avg))]

\* the variance, given avgReturn
VarianceAround(rs, avg) ==
    FDiv(SeqSum(SquaredDeviations(rs, avg)), FromInt(Len(rs)))

Variance(rs) ==
    CHOOSE res \in {VarianceAround(rs, avg) : avg \in {AvgReturn(rs)}} : TRUE

\* Math.sqrt(variance)
Volatility(rs) == FSqrt(Variance(rs))

\* prices[prices.length - 1]
StartPrice(ps) == IF Len(ps) = 0 THEN Undefined ELSE ps[Len(ps)]

\* price * (1 + randomReturn)
StepPriceMinus(p, r) == FMul(p, FSub(FromInt(1), r))
StepPrice(p, r) == FMul(p, FAdd(FromInt(1), r))

\* the comparator (a, b) => a - b tells sort that a goes after b when the
\* difference is positive; a NaN difference counts as 0
ComesAfterDesc(a, b) == FGreater(FSub(b, a), Zero)
ComesAfter(a, b) == FGreater(FSub(a, b), Zero)

\* the comparator orders the entries of s consistently: no entry compares
\* as equal to two entries that it tells apart
Consistent(s) ==
    ~ /\ \E i \in 1..Len(s) : IsNaN(ToNumber(s[i]))
      /\ \E j, k \in 1..Len(s) : ComesAfter(s[j], s[k])

\* the place of s[i] in a stable sort: after the entries the comparator
\* puts before it and after the earlier entries it compares as equal to it
SortRank(s, i) ==
    Cardinality({j \in 1..Len(s) :
        \/ ComesAfter(s[i], s[j])
        \/ ~ComesAfter(s[j], s[i]) /\ j < i}) + 1

StableSort(s) ==
    CHOOSE res \in
        {<<>> \o [k \in 1..Len(s) |-> s[CHOOSE i \in 1..Len(s) : rank[i] = k]] :
            rank \in {<<>> \o [i \in 1..Len(s) |-> SortRank(s, i)]}} : TRUE

IndexOrders(n) ==
    {p \in [1..n -> 1..n] : \A i, j \in 1..n : i # j => p[i] # p[j]}

\* the entries of s at the positions in at, in their order
Pick(s, at) ==
    <<>> \o [k \in 1..Cardinality(at) |->
                s[CHOOSE i \in at : Cardinality({j \in at : j <= i}) = k]]

IsUndefined(x) == x.kind = "undefined"

\* the entries of s that are not undefined, and the undefined ones
DefinedOf(s) == Pick(s, {i \in 1..Len(s) : ~IsUndefined(s[i])})
UndefinedOf(s) == Pick(s, {i \in 1..Len(s) : IsUndefined(s[i])})

\* the orders sort can leave the defined entries in, then the rest
SortedThenRest(defined, rest) ==
    IF Consistent(defined) THEN {StableSort(defined) \o rest}
    ELSE {<<>> \o [i \in 1..Len(defined) |-> defined[p[i]]] \o rest :
             p \in IndexOrders(Len(defined))}

\* finalPrices.sort((a, b) => a - b): the orders the call can leave.  The
\* sort is stable and puts undefined entries last; with a comparator that
\* is not consistent the order of the other entries is up to the engine
SortAsc(s) == SortedThenRest(DefinedOf(s), UndefinedOf(s))

(***************************************************************************)
(* runMonteCarloSimulation as one call, the calls of Math.random() served  *)
(* from a stream                                                           *)
(***************************************************************************)
\* the k-th value of a stream that repeats
At(stream, k) == stream[((k - 1) % Len(stream)) + 1]

RandomStreams == {<<1, 0>>, <<0, 0, 1, 1, 0, 1, 1, 1, 1>>}

RECURSIVE RedrawLoop(_, _, _)
RedrawLoop(stream, u, pos) ==
    IF NeedsRedraw(u) THEN RedrawLoop(stream, At(stream, pos), pos + 1)
    ELSE [u1 |-> u, pos |-> pos]

\* the sample from the draws the loop leaves
SampleAfter(mean, stdDev, loop, second) ==
    [value |-> BoxMullerValue(mean, stdDev, loop.u1, second), pos |-> loop.pos]

\* boxMullerRandom(mean, stdDev) reading the stream from position pos
BoxMullerRandom(mean, stdDev, stream, pos) ==
    CHOOSE res \in
        {SampleAfter(mean, stdDev, loop, At(stream, pos + 1)) :
            loop \in {RedrawLoop(stream, At(stream, pos), pos + 2)}} : TRUE

\* the inner loop, from day d
RECURSIVE SimulatePath(_, _, _, _, _, _)
SimulatePath(mean, stdDev, p, d, stream, pos) ==
    IF d >= FORECAST_DAYS THEN [price |-> p, pos |-> pos]
    ELSE CHOOSE res \in
            UNION {{SimulatePath(mean, stdDev, next, d + 1, stream, s.pos) :
                       next \in {StepPrice(p, s.value)}} :
                   s \in {BoxMullerRandom(mean, stdDev, stream, pos)}} : TRUE

\* the outer loop, from path k
RECURSIVE SimulatePaths(_, _, _, _, _, _, _)
SimulatePaths(mean, stdDev, start, k, acc, stream, pos) ==
    IF k >= NUM_SIMULATIONS THEN acc
    ELSE CHOOSE res \in
            {SimulatePaths(mean, stdDev, start, k + 1, Append(acc, path.price),
                           stream, path.pos) :
                path \in {SimulatePath(mean, stdDev, start, 0, stream, pos)}} :
            TRUE

\* the loops and the sort, given the return model
SimulateFrom(mean, stdDev, start, stream) ==
    {[startPrice |-> start, finalPrices |-> fp] :
        fp \in SortAsc(SimulatePaths(mean, stdDev, start, 0, <<>>, stream, 1))}

\* the results the call can return
Simulate(ps, stream) ==
    CHOOSE res \in
        UNION {{SimulateFrom(mean, Volatility(rs), StartPrice(ps), stream) :
                   mean \in {AvgReturn(rs)}} :
               rs \in {Returns(ps)}} : TRUE

\* the histories fetchCommodityData returns for the modelled responses,
\* fresh and read back from the cache
FetchedHistories ==
    UNION {{out.prices,
            JSONParse(JSONStringify([timestamp |-> Zero,
                                     prices |-> out.prices])).prices} :
              out \in {o \in BodyOutcomes : o.ok}}

\* the simulation of each of these histories, computed once
SimulateFetched ==
    {[prices |-> ps, stream |-> st, results |-> Simulate(ps, st)] :
        ps \in FetchedHistories, st \in RandomStreams}

\* the results in the entries found, or the call itself
ResultsOf(found, ps, stream) ==
    IF found = {} THEN Simulate(ps, stream)
    ELSE UNION {e.results : e \in found}

RunMonteCarloSimulation(ps, stream) ==
    ResultsOf({e \in SimulateFetched : e.prices = ps /\ e.stream = stream},
              ps, stream)

\* the histogram of each of those simulations, computed once
HistogramFetched ==
    {[prices |-> fp, histogram |-> DrawHistogram(fp, DefaultNumBins)] :
        fp \in {res.finalPrices : res \in UNION {e.results : e \in SimulateFetched}}}

\* the histogram in the entries found, or the call itself
HistogramOf(found, fp) ==
    IF found = {} THEN DrawHistogram(fp, DefaultNumBins)
    ELSE (CHOOSE e \in found : TRUE).histogram

\* drawHistogram(results) with the default numBins
DrawDefaultHistogram(fp) ==
    HistogramOf({e \in HistogramFetched : e.prices = fp}, fp)

(***************************************************************************)
(* displayResults                                                          *)
(***************************************************************************)
\* the doubles 0.95 and 0.05
BestFraction == ParseFloat(<<"0", ".", "9", "5">>)
WorstFraction == ParseFloat(<<"0", ".", "0", "5">>)

\* Math.floor(n * 0.95) and Math.floor(n * 0.05)
BestIndex(n) == IndexOf(FFloor(FMul(FromInt(n), BestFraction)))
WorstIndex(n) == IndexOf(FFloor(FMul(FromInt(n), WorstFraction)))

\* finalPrices[i]: undefined past the end of the array
ElementAt(fp, i) == IF i < Len(fp) THEN fp[i + 1] ELSE Undefined

\* the sum divided by one less than the length
ExpectedPriceOffByOne(fp) == FDiv(SeqSum(fp), FromInt(Len(fp) - 1))
\* expectedPrice = sum / length
ExpectedPrice(fp) == FDiv(SeqSum(fp), FromInt(Len(fp)))
BestCase(fp) == ElementAt(fp, BestIndex(Len(fp)))
WorstCase(fp) == ElementAt(fp, WorstIndex(Len(fp)))

\* x.toFixed(2) throws a TypeError when x is undefined or null
ToFixedThrows(x) == x.kind \in {"undefined", "null"}
TypeErrorMessage(x) ==
    IF x.kind = "undefined"
    THEN "Cannot read properties of undefined (reading 'toFixed')"
    ELSE "Cannot read properties of null (reading 'toFixed')"

NoShown == [startPrice |-> Zero, expectedPrice |-> Zero, bestCase |-> Zero,
            worstCase |-> Zero]

\* lines 160-170 with the three values computed: the fields are written one
\* after the other, up to the first toFixed that throws
WriteFields(start, expected, best, worst, old) ==
    IF ToFixedThrows(start)
    THEN [threw |-> TRUE, message |-> TypeErrorMessage(start), shown |-> old]
    ELSE IF ToFixedThrows(best)
    THEN [threw |-> TRUE, message |-> TypeErrorMessage(best),
          shown |-> [old EXCEPT !.startPrice = start, !.expectedPrice = expected]]
    ELSE IF ToFixedThrows(worst)
    THEN [threw |-> TRUE, message |-> TypeErrorMessage(worst),
          shown |-> [old EXCEPT !.startPrice = start, !.expectedPrice = expected,
                                !.bestCase = best]]
    ELSE [threw |-> FALSE, message |-> "",
          shown |-> [startPrice |-> start, expectedPrice |-> expected,
                     bestCase |-> best, worstCase |-> worst]]

\* lines 163-168: the mean and the two percentile entries
PriceFields(fp) ==
    [expectedPrice |-> ExpectedPrice(fp), bestCase |-> BestCase(fp),
     worstCase |-> WorstCase(fp)]

\* these values for each of the simulations above, computed once
FieldsFetched ==
    {[prices |-> fp, fields |-> PriceFields(fp)] :
        fp \in {res.finalPrices : res \in UNION {e.results : e \in SimulateFetched}}}

\* the values in the entries found, or the computation itself
FieldsOf(found, fp) ==
    IF found = {} THEN PriceFields(fp) ELSE (CHOOSE e \in found : TRUE).fields

\* lines 160-170
DisplayFields(res, old) ==
    CHOOSE out \in
        {WriteFields(res.startPrice, f.expectedPrice, f.bestCase, f.worstCase,
                     old) :
            f \in {FieldsOf({e \in FieldsFetched : e.prices = res.finalPrices},
                            res.finalPrices)}} : TRUE

(***************************************************************************)
(* Specification SpecDisplay: displayResults and drawHistogram applied to  *)
(* sorted lists of terminal prices                                         *)
(***************************************************************************)
\* three terminal prices, ascending
TerminalValues == <<FromInt(10), FromInt(11), FromInt(14)>>

\* the ascending list with a copies of the lowest value, then the
\* middle one up to position b, then the highest
SortedList(n, a, b) ==
    [i \in 1..n |-> IF i <= a THEN TerminalValues[1]
                    ELSE IF i <= b THEN TerminalValues[2]
                    ELSE TerminalValues[3]]

SortedLists ==
    {SortedList(n, a, b) : <<n, a, b>> \in
        {t \in (1..MaxPaths) \X (0..MaxPaths) \X (0..MaxPaths) :
            t[2] <= t[3] /\ t[3] <= t[1]}}

\* the start prices of the results handed over: a price, and the null a
\* cached history can end with
StartValues == {TerminalValues[2], Null}

InitDisplay ==
    /\ DomIdle
    /\ SimIdle
    /\ UIIdle
    /\ shown = NoShown
    /\ bins = <<>>
    /\ binsNaNProp = FALSE
    /\ \E fp \in SortedLists, sp \in StartValues :
          results = [startPrice |-> sp, finalPrices |-> fp]
    /\ dpc = "ready"

\* displayResults(results): the four fields, the histogram, the section;
\* nothing after a toFixed that throws
DisplayResults ==
    /\ dpc = "ready"
    /\ \E out \in {DisplayFields(results, shown)} :
          /\ shown' = out.shown
          /\ IF out.threw
             THEN /\ dpc' = "threw"
                  /\ UNCHANGED <<bins, binsNaNProp, resultsActive>>
             ELSE /\ \E h \in {DrawHistogram(results.finalPrices, DefaultNumBins)} :
                        /\ bins' = h.bins
                        /\ binsNaNProp' = h.nanProp
                  /\ resultsActive' = TRUE
                  /\ dpc' = "displayed"
    /\ UNCHANGED <<btnDisabled, loadingActive, errorActive, errorText, results>>
    /\ UNCHANGED <<simvars, uivars>>

\* drawHistogram(results, numBins) with an explicit bin count
DrawHistogramCall ==
    /\ dpc = "ready"
    /\ \E k \in 1..MaxBins :
          \E h \in {DrawHistogram(results.finalPrices, k)} :
              /\ bins' = h.bins
              /\ binsNaNProp' = h.nanProp
    /\ dpc' = "drawn"
    /\ UNCHANGED <<btnDisabled, loadingActive, errorActive, errorText,
                   resultsActive, shown, results>>
    /\ UNCHANGED <<simvars, uivars>>

NextDisplay == DisplayResults \/ DrawHistogramCall

SpecDisplay == InitDisplay /\ [][NextDisplay]_vars

(***************************************************************************)
(* Specification SpecSim: runMonteCarloSimulation applied to a price       *)
(* history, one step per call of Math.random()                             *)
(***************************************************************************)
\* the prices of the histories: two prices, and the smallest positive
\* double, at which a falling price underflows
HistValues == {FromInt(1), FromInt(4), MinValue}

Histories == UNION {[1..n -> HistValues] : n \in 0..MaxHist}

InitSim ==
    /\ DomIdle
    /\ UIIdle
    /\ shown = NoShown
    /\ bins = <<>>
    /\ binsNaNProp = FALSE
    /\ results = [startPrice |-> Zero, finalPrices |-> <<>>]
    /\ dpc = "idle"
    /\ hist \in Histories
    /\ spc = "start"
    /\ avgReturn = Zero
    /\ volatility = Zero
    /\ startPrice = Zero
    /\ sim = 0
    /\ day = 0
    /\ price = Zero
    /\ finalPrices = <<>>
    /\ generated = <<>>
    /\ u1 = 0
    /\ u2 = 0
    /\ u1Redrawn = FALSE
    /\ u2Draws = 0
    /\ logArg = <<>>
    /\ simSteps = 0
    /\ simOutcome = "none"
    /\ aboveMinusOne = TRUE
    /\ underflowed = FALSE

\* lines 113-129: the return model, the start price, entry into the loops
SimBegin ==
    /\ spc = "start"
    /\ \E rs \in {Returns(hist)} :
          /\ avgReturn' = AvgReturn(rs)
          /\ volatility' = Volatility(rs)
    /\ startPrice' = StartPrice(hist)
    /\ finalPrices' = <<>>
    /\ sim' = 0
    /\ day' = 0
    /\ price' = StartPrice(hist)
    /\ spc' = "u1"
    /\ UNCHANGED <<hist, generated, u1, u2, u1Redrawn, u2Draws, logArg,
                   simSteps, simOutcome, aboveMinusOne, underflowed>>
    /\ UNCHANGED <<domvars, dispvars, uivars>>

\* line 146: let u1 = Math.random()
DrawU1 ==
    /\ spc = "u1"
    /\ \E u \in Uniforms : u1' = u
    /\ u1Redrawn' = FALSE
    /\ u2Draws' = 0
    /\ spc' = "u2"
    /\ UNCHANGED <<hist, avgReturn, volatility, startPrice, sim, day, price,
                   finalPrices, generated, u2, logArg, simSteps, simOutcome,
                   aboveMinusOne, underflowed>>
    /\ UNCHANGED <<domvars, dispvars, uivars>>

\* line 147: let u2 = Math.random()
DrawU2 ==
    /\ spc = "u2"
    /\ \E u \in Uniforms : u2' = u
    /\ u2Draws' = u2Draws + 1
    /\ spc' = "loop"
    /\ UNCHANGED <<hist, avgReturn, volatility, startPrice, sim, day, price,
                   finalPrices, generated, u1, u1Redrawn, logArg, simSteps,
                   simOutcome, aboveMinusOne, underflowed>>
    /\ UNCHANGED <<domvars, dispvars, uivars>>

\* line 149: while (u1 === 0) u1 = Math.random()
RedrawU1 ==
    /\ spc = "loop"
    /\ NeedsRedraw(u1)
    /\ \E u \in Uniforms : u1' = u
    /\ u1Redrawn' = TRUE
    /\ UNCHANGED <<hist, spc, avgReturn, volatility, startPrice, sim, day,
                   price, finalPrices, generated, u2, u2Draws, logArg,
                   simSteps, simOutcome, aboveMinusOne, underflowed>>
    /\ UNCHANGED <<domvars, dispvars, uivars>>

\* the product price * (1 + r) of two positive numbers came out as 0
Underflows(p0, r, p1) ==
    /\ FGreater(p0, Zero)
    /\ FGreater(FAdd(FromInt(1), r), Zero)
    /\ IsZero(ToNumber(p1))

\* lines 151-152 and 133-141: the sample, the price update, the end of the
\* inner and outer loops, the sort and the return
Sample ==
    /\ spc = "loop"
    /\ ~NeedsRedraw(u1)
    /\ logArg' = <<u1>>
    /\ \E r \in {BoxMullerValue(avgReturn, volatility, u1, u2)} :
       \E p \in {StepPrice(price, r)} :
       \E pathDone \in {day + 1 >= FORECAST_DAYS} :
       \E pushed \in {IF pathDone THEN Append(finalPrices, p) ELSE finalPrices} :
       \E allDone \in {pathDone /\ sim + 1 >= NUM_SIMULATIONS} :
           /\ aboveMinusOne' = (aboveMinusOne /\ FGreater(r, FromInt(-1)))
           /\ underflowed' = (underflowed \/ Underflows(price, r, p))
           /\ simSteps' = simSteps + 1
           /\ day' = IF pathDone THEN 0 ELSE day + 1
           /\ sim' = IF pathDone THEN sim + 1 ELSE sim
           /\ price' = IF pathDone THEN startPrice ELSE p
           /\ generated' = pushed
           /\ \E sorted \in (IF allDone THEN SortAsc(pushed) ELSE {pushed}) :
                 finalPrices' = sorted
           /\ spc' = IF allDone THEN "done" ELSE "u1"
           /\ simOutcome' = IF allDone THEN "returned" ELSE simOutcome
    /\ UNCHANGED <<hist, avgReturn, volatility, startPrice, u1, u2, u1Redrawn,
                   u2Draws>>
    /\ UNCHANGED <<domvars, dispvars, uivars>>

NextSim == SimBegin \/ DrawU1 \/ DrawU2 \/ RedrawU1 \/ Sample

SpecSim == InitSim /\ [][NextSim]_vars

(***************************************************************************)
(* Specification SpecUI: clicks, fetches and the clock                     *)
(***************************************************************************)
\* runBtn.disabled = true at the start of runAnalysis
LeftEnabledOnStart == FALSE
DisabledOnStart == TRUE

\* resultsSection.classList.remove('active') at the start of runAnalysis
ResultsKeptOnStart == resultsActive
ResultsActiveOnStart == FALSE

Settled(sym, outcome, source) ==
    [symbol |-> sym, stage |-> "settled", ok |-> outcome.ok,
     message |-> outcome.message, prices |-> outcome.prices, source |-> source]

Pending(sym, stage) ==
    [symbol |-> sym, stage |-> stage, ok |-> FALSE, message |-> "",
     prices |-> <<>>, source |-> "fetch"]

\* fetchCommodityData up to its first await: a fresh cache entry is
\* returned, an unmapped symbol throws, otherwise the request is sent
FetchStart(sym) ==
    IF cache[sym].present /\ CacheFresh(JSONParse(cache[sym].text))
    THEN Settled(sym, [ok |-> TRUE, message |-> "",
                       prices |-> JSONParse(cache[sym].text).prices], "cache")
    ELSE IF sym \notin Mapped
    THEN Settled(sym, [ok |-> FALSE, message |-> "Unknown commodity: " \o sym,
                       prices |-> <<>>], "fetch")
    ELSE Pending(sym, "fetch")

\* a click on the enabled button: the handler, runAnalysis up to its await
Click ==
    /\ ~btnDisabled
    /\ Len(inflight) < MaxInflight
    /\ \E sym \in Symbols :
          inflight' = Append(inflight, FetchStart(sym))
    /\ loadingActive' = TRUE
    /\ errorActive' = FALSE
    /\ resultsActive' = ResultsActiveOnStart
    /\ btnDisabled' = DisabledOnStart
    /\ UNCHANGED <<errorText, shown, bins, binsNaNProp>>
    /\ UNCHANGED <<cache, now, lastSource, lastOutcome>>
    /\ UNCHANGED <<dispvars, simvars>>

\* showError(message): the text of the error panel
ShowError(message) == "Error: " \o message

Replace(seq, i, x) == [seq EXCEPT ![i] = x]
Remove(seq, i) == SubSeq(seq, 1, i - 1) \o SubSeq(seq, i + 1, Len(seq))

\* await fetch(url): the request fails, or a response arrives
FetchRespond ==
    /\ \E i \in 1..Len(inflight) :
          /\ inflight[i].stage = "fetch"
          /\ \/ inflight' = Replace(inflight, i,
                    Settled(inflight[i].symbol,
                            [ok |-> FALSE, message |-> "Failed to fetch",
                             prices |-> <<>>], "fetch"))
             \/ inflight' = Replace(inflight, i,
                                    Pending(inflight[i].symbol, "json"))
    /\ UNCHANGED <<domvars, dispvars, simvars>>
    /\ UNCHANGED <<cache, now, lastSource, lastOutcome>>

\* await response.json(): the body is not JSON, or lines 88-107 run on it
JsonParsed ==
    /\ \E i \in 1..Len(inflight) :
          /\ inflight[i].stage = "json"
          /\ \/ /\ inflight' = Replace(inflight, i,
                       Settled(inflight[i].symbol,
                               [ok |-> FALSE, message |-> "Unexpected token",
                                prices |-> <<>>], "fetch"))
                /\ UNCHANGED cache
             \/ \E out \in BodyOutcomes :
                \E sym \in {inflight[i].symbol} :
                       /\ inflight' = Replace(inflight, i,
                                              Settled(sym, out, "fetch"))
                       /\ cache' = IF out.ok
                                   THEN [cache EXCEPT ![sym] =
                                            Entry(JSONStringify(
                                                [timestamp |-> DateNow,
                                                 prices |-> out.prices]))]
                                   ELSE cache
    /\ UNCHANGED <<domvars, dispvars, simvars>>
    /\ UNCHANGED <<now, lastSource, lastOutcome>>

\* runAnalysis after its await: the simulation and the display, or the
\* catch block, then the finally block
Continue ==
    /\ \E i \in 1..Len(inflight) :
          /\ inflight[i].stage = "settled"
          /\ inflight' = Remove(inflight, i)
          /\ IF inflight[i].ok
             THEN \E stream \in RandomStreams :
                  \E res \in RunMonteCarloSimulation(inflight[i].prices, stream) :
                  \E out \in {DisplayFields(res, shown)} :
                        /\ hist' = inflight[i].prices
                        /\ simOutcome' = "returned"
                        /\ lastSource' = inflight[i].source
                        /\ results' = res
                        /\ shown' = out.shown
                        /\ IF out.threw
                           THEN /\ errorText' = ShowError(out.message)
                                /\ errorActive' = TRUE
                                /\ lastOutcome' = "threw"
                                /\ UNCHANGED <<resultsActive, bins, binsNaNProp>>
                           ELSE /\ \E h \in {DrawDefaultHistogram(res.finalPrices)} :
                                      /\ bins' = h.bins
                                      /\ binsNaNProp' = h.nanProp
                                /\ resultsActive' = TRUE
                                /\ lastOutcome' = "ok"
                                /\ UNCHANGED <<errorText, errorActive>>
             ELSE /\ errorText' = ShowError(inflight[i].message)
                  /\ errorActive' = TRUE
                  /\ lastOutcome' = "threw"
                  /\ UNCHANGED <<resultsActive, shown, bins, binsNaNProp,
                                 hist, simOutcome, lastSource, results>>
    /\ loadingActive' = FALSE
    /\ btnDisabled' = FALSE
    /\ UNCHANGED <<dpc, spc, avgReturn, volatility, startPrice, sim, day, price,
                   finalPrices, generated, u1, u2, u1Redrawn, u2Draws, logArg,
                   simSteps, aboveMinusOne, underflowed>>
    /\ UNCHANGED <<cache, now>>

\* time passes
Tick ==
    /\ now < MaxTicks
    /\ now' = now + 1
    /\ UNCHANGED <<domvars, dispvars, simvars>>
    /\ UNCHANGED <<cache, inflight, lastSource, lastOutcome>>

InitUI ==
    /\ DomIdle
    /\ SimIdle
    /\ UIIdle
    /\ shown = NoShown
    /\ bins = <<>>
    /\ binsNaNProp = FALSE
    /\ results = [startPrice |-> Zero, finalPrices |-> <<>>]
    /\ dpc = "idle"

NextUI == Click \/ FetchRespond \/ JsonParsed \/ Continue \/ Tick

SpecUI == InitUI /\ [][NextUI]_vars

\* every pending fetch settles and every resumed function runs on
SpecUILive ==
    /\ SpecUI
    /\ WF_vars(FetchRespond)
    /\ WF_vars(JsonParsed)
    /\ WF_vars(Continue)

(***************************************************************************)
(* Properties of displayResults and drawHistogram (SpecDisplay)            *)
(***************************************************************************)
RECURSIVE BinTotal(_)
BinTotal(b) == IF b = <<>> THEN 0 ELSE b[1] + BinTotal(Tail(b))

AllEqual(fp) == \A i \in 1..Len(fp) : fp[i] = fp[1]

HistogramDone == dpc \in {"displayed", "drawn"}

\* C1: once drawHistogram has counted the prices, the bin counts sum to the
\* number of prices, for every list of prices and every bin count.
C1_BinsSumToCount ==
    HistogramDone => BinTotal(bins) = Len(results.finalPrices)

\* C2: when all terminal prices are equal, bin 0 holds every price and all
\* other bins hold none.
C2_DegenerateInBinZero ==
    (HistogramDone /\ AllEqual(results.finalPrices)) =>
        /\ bins[1] = Len(results.finalPrices)
        /\ \A i \in 2..Len(bins) : bins[i] = 0

\* a >= b: both are numbers and b is not greater than a
FGeq(a, b) ==
    /\ ~IsNaN(ToNumber(a))
    /\ ~IsNaN(ToNumber(b))
    /\ ~FGreater(b, a)

\* C6 as stated: for a sorted list that is not all equal, displayResults
\* computes bestCase >= expectedPrice >= worstCase.
C6_MeanBetweenPercentiles ==
    (dpc = "displayed" /\ ~AllEqual(results.finalPrices)) =>
        /\ FGeq(shown.bestCase, shown.expectedPrice)
        /\ FGeq(shown.expectedPrice, shown.worstCase)

\* C6 amended: for every sorted list displayResults computes
\* bestCase >= worstCase, and expectedPrice lies between the smallest and
\* the largest terminal price.
C6_PercentilesOrderedMeanInRange ==
    dpc = "displayed" =>
        /\ FGeq(shown.bestCase, shown.worstCase)
        /\ FGeq(results.finalPrices[Len(results.finalPrices)],
                shown.expectedPrice)
        /\ FGeq(shown.expectedPrice, results.finalPrices[1])

\* a displayed list of at least 20 unequal prices whose mean lies above the
\* 95th-percentile entry
C6_Witness ==
    /\ dpc = "displayed"
    /\ ~AllEqual(results.finalPrices)
    /\ Len(results.finalPrices) >= 20
    /\ FGreater(shown.bestCase, shown.worstCase)
    /\ FGreater(shown.expectedPrice, shown.bestCase)

(***************************************************************************)
(* Properties of runMonteCarloSimulation and boxMullerRandom (SpecSim)     *)
(***************************************************************************)
Occurrences(s, x) == Cardinality({i \in 1..Len(s) : s[i] = x})

IsPermutation(s, t) ==
    /\ Len(s) = Len(t)
    /\ \A i \in 1..Len(s) : Occurrences(s, s[i]) = Occurrences(t, s[i])

\* no entry is greater than its successor
NonDecreasing(s) == \A i \in 1..(Len(s) - 1) : ~FGreater(s[i], s[i + 1])

\* C3: the finalPrices returned by runMonteCarloSimulation holds one
\* terminal price per path, is a permutation of the generated terminal
\* prices, and is in non-decreasing order.
C3_ReturnedPricesSorted ==
    spc = "done" =>
        /\ Len(finalPrices) = NUM_SIMULATIONS
        /\ IsPermutation(finalPrices, generated)
        /\ NonDecreasing(finalPrices)

\* a run whose terminal prices were generated out of order
C3_Witness ==
    /\ spc = "done"
    /\ ~NonDecreasing(generated)
    /\ finalPrices # generated
    /\ FGreater(finalPrices[Len(finalPrices)], finalPrices[1])

AllPositive(s) == \A i \in 1..Len(s) : FGreater(s[i], Zero)

\* every entry is a number that is 0 or more
NoneNegative(s) == \A i \in 1..Len(s) : FGeq(s[i], Zero)

\* C4 as stated, for a history that defines a return model: whenever
\* startPrice > 0, every terminal price is strictly positive, whatever the
\* sampled returns.
C4_TerminalPositive ==
    (spc = "done" /\ FGreater(startPrice, Zero) /\ IsFinite(avgReturn)) =>
        AllPositive(finalPrices)

\* C4 amended: whenever startPrice > 0 and every sampled return is greater
\* than -1, no terminal price is negative, and every terminal price is
\* strictly positive unless a product price * (1 + sample) underflowed to 0.
C4_PositiveWhenReturnsAboveMinusOne ==
    (spc = "done" /\ FGreater(startPrice, Zero) /\ aboveMinusOne) =>
        /\ NoneNegative(finalPrices)
        /\ ~underflowed => AllPositive(finalPrices)

\* a finished run with a volatile history in which a path lost value but
\* no sample reached -1
C4_Witness ==
    /\ spc = "done"
    /\ FGreater(startPrice, Zero)
    /\ aboveMinusOne
    /\ ~underflowed
    /\ FGreater(volatility, Zero)
    /\ FGreater(finalPrices[1], Zero)
    /\ FGreater(startPrice, finalPrices[1])

\* C5: with fewer than 2 price points runMonteCarloSimulation executes no
\* simulation step and returns no result: it fails with
\* InsufficientDataError.
C5_ShortHistoryRejected ==
    Len(hist) < 2 =>
        /\ simSteps = 0
        /\ simOutcome # "returned"
        /\ spc = "done" => simOutcome = "InsufficientDataError"

\* C8: Math.log is never called with 0, and u2 has been drawn exactly once
\* when the redraw loop runs and when the sample is computed.
C8_LogArgNonZero ==
    /\ \A i \in 1..Len(logArg) : logArg[i] # 0
    /\ spc = "loop" => u2Draws = 1
    /\ (logArg # <<>> /\ spc \in {"u1", "done"}) => u2Draws = 1

\* a sample computed after the loop replaced a zero u1
C8_Witness ==
    /\ logArg = <<1>>
    /\ u1Redrawn
    /\ u2Draws = 1

(***************************************************************************)
(* Properties of runAnalysis and fetchCommodityData (SpecUI, SpecUILive)   *)
(***************************************************************************)
InRange(ps) == MinHistory <= Len(ps) /\ Len(ps) <= HistoryWindow

\* C7: the price history handed to runMonteCarloSimulation has between 30
\* and 100 entries, whether it was fetched or read from the cache; so has
\* every history fetchCommodityData has returned and runAnalysis is about to
\* hand over.
C7_HistoryLengthInRange ==
    /\ simOutcome = "returned" => InRange(hist)
    /\ \A i \in 1..Len(inflight) :
          (inflight[i].stage = "settled" /\ inflight[i].ok) =>
              InRange(inflight[i].prices)

\* a simulation that ran on a full window of prices read from the cache
C7_Witness ==
    /\ simOutcome = "returned"
    /\ lastSource = "cache"
    /\ Len(hist) = HistoryWindow
    /\ lastOutcome = "ok"

\* C9: at most one runAnalysis is in flight, and the button is disabled
\* exactly while one is.
C9_OneAnalysisInFlight ==
    /\ Len(inflight) <= 1
    /\ btnDisabled <=> (inflight # <<>>)

\* a second analysis waiting for its fetch after an earlier one finished
C9_Witness ==
    /\ Len(inflight) = 1
    /\ inflight[1].stage = "fetch"
    /\ btnDisabled
    /\ lastOutcome # "none"

Idle == inflight = <<>>

\* C10: every runAnalysis that starts finishes; when none is running the
\* button is enabled and the loading indicator hidden; the error panel and
\* the results section are never both shown; the results section is shown
\* only after a run that succeeded and the error panel only after a run that
\* threw.
C10_AnalysisFinishesCleanly ==
    /\ [](Idle => (~btnDisabled /\ ~loadingActive))
    /\ [](~Idle => (loadingActive /\ ~errorActive /\ ~resultsActive))
    /\ [](~(errorActive /\ resultsActive))
    /\ []((Idle /\ resultsActive) => lastOutcome = "ok")
    /\ []((Idle /\ errorActive) => lastOutcome = "threw")
    /\ (~Idle ~> Idle)

\* a run that ended in the error panel after an earlier run had shown
\* results
C10_Witness ==
    /\ Idle
    /\ errorActive
    /\ ~resultsActive
    /\ ~btnDisabled
    /\ ~loadingActive
    /\ lastOutcome = "threw"
    /\ shown # NoShown

=============================================================================
